---- MODULE Spec2Model ----
(***************************************************************************)
(* Call lifecycle of the DearMEP telephony backend (46elks provider):      *)
(* the Call Registry (phone/elks/ongoing_calls.py), the webhook handlers   *)
(* of the IVR flow (phone/elks/elks.py, mount_router) and the selection    *)
(* log they append to.                                                     *)
(*                                                                         *)
(* A handler is modelled as a sequence of steps that each end in a         *)
(* session.commit(): what one step does is visible to the other requests   *)
(* as a whole, what two steps do is not.                                   *)
(***************************************************************************)
EXTENDS Integers, Sequences, FiniteSets, TLC

VARIABLES
    calls,      \* the "calls" table: a set of Call rows
    log,        \* the destination selection log: per call id, its events in
                \* the order they were inserted
    now,        \* datetime.now(), in seconds
    prov,       \* per provider call id: the webhook the provider calls next
    pc,         \* per provider call id: position of the IVR handler in flight
    loc,        \* per provider call id: locals of the IVR handler in flight
    hpc,        \* per provider call id: position of the hangup handler
    hloc,       \* per provider call id: locals of the hangup handler
    hangups,    \* per provider call id: hangup webhooks delivered
    response,   \* per provider call id: the answer to its last IVR webhook
    started,    \* per provider call id: the requests start_elks_call made
                \* to the provider, the state answered and what it returned
    ret,        \* the last direct Registry operation and its result
    ops,        \* the number of direct Registry operations made so far
    phone_numbers   \* the pool of caller-ID numbers, a list

vars ==
    <<calls, log, now, prov, response, pc, loc, hpc, hloc, hangups, started,
      ret, ops, phone_numbers>>

engineVars ==
    <<log, prov, response, pc, loc, hpc, hloc, hangups, started,
      phone_numbers>>

----------------------------------------------------------------------------
(* Bounds *)

MaxTime == 2
MaxHangups == 2
MaxOps == 5

(* Program constants *)

phone_call_threshhold == 1

(* Value sets *)

CallIds == {"c1", "c2"}
Destinations == {"d1", "d2"}
Languages == {"en", "de"}
Providers == {"46elks", "other"}
UserIds == {"u1", "u2"}
\* the users whose calls are added to the Registry directly
Users == {[user_id |-> "u1", user_language |-> "en"],
          [user_id |-> "u2", user_language |-> "de"]}
provider == "46elks"

NULL == -1

\* what a variable holding no Call holds (Python's None)
None ==
    [provider |-> "", provider_call_id |-> "", user_language |-> "",
     user_id |-> "", destination_id |-> "",
     connected_at |-> NULL, ended_at |-> NULL]

----------------------------------------------------------------------------
(* Call Registry: phone/elks/ongoing_calls.py *)

\* the rows the filter of get_call selects
get_call_rows(rows, callid) ==
    {r \in rows : r.provider_call_id = callid}

\* one_or_none() raises MultipleResultsFound on more than one row
get_call_raises(rows, callid) ==
    Cardinality(get_call_rows(rows, callid)) > 1

\* one_or_none(): the row, or None
get_call(rows, callid) ==
    IF Cardinality(get_call_rows(rows, callid)) = 1
    THEN CHOOSE r \in get_call_rows(rows, callid) : TRUE
    ELSE None

\* mutant: the calls table without its unique_call constraint
unique_call_dropped(rows, p, callid) == TRUE

\* the unique_call constraint of the calls table
unique_call(rows, p, callid) ==
    ~ \E r \in rows : r.provider = p /\ r.provider_call_id = callid

new_call(p, callid, lang, user, dest) ==
    [provider |-> p, provider_call_id |-> callid,
     user_language |-> lang, user_id |-> user, destination_id |-> dest,
     connected_at |-> NULL, ended_at |-> NULL]

add_call(rows, p, callid, lang, user, dest) ==
    rows \cup {new_call(p, callid, lang, user, dest)}

\* session.delete(call) of remove_call raises on None
remove_call_raises(rows, callid) ==
    get_call_raises(rows, callid) \/ get_call(rows, callid) = None

\* mutant: the row is not deleted
remove_call_kept(rows, callid) == rows

remove_call(rows, callid) ==
    rows \ {get_call(rows, callid)}

\* UPDATE of the row of the object
update_row(rows, old, new) ==
    {IF r = old THEN new ELSE r : r \in rows}

\* mutant: connected_at is set on the object and never written to the table
connect_call_unsaved(rows, call, t) == rows

connect_call(rows, call, t) ==
    update_row(rows, call, [call EXCEPT !.connected_at = t])

end_call(rows, call, t) ==
    update_row(rows, call, [call EXCEPT !.ended_at = t])

\* mutant: the query without its ended_at condition
destination_is_in_call_ignores_ended(rows, destination_id) ==
    \E r \in rows :
        /\ r.destination_id = destination_id
        /\ r.connected_at # NULL

destination_is_in_call(rows, destination_id) ==
    \E r \in rows :
        /\ r.destination_id = destination_id
        /\ r.connected_at # NULL
        /\ r.ended_at = NULL

----------------------------------------------------------------------------
(* Phone numbers: phone/utils.py and the pool of phone/elks/elks.py *)

\* random.choice: any element of the list
choice(list) == {list[i] : i \in 1..Len(list)}

\* choice raises IndexError on an empty list
choice_raises(list) == Len(list) = 0

\* choose_from_number: the numbers of the country that is the language
lang_numbers(numbers, language) ==
    SelectSeq(numbers, LAMBDA nr : nr.country = language)

choose_from_number_raises(numbers, language) ==
    IF Len(lang_numbers(numbers, language)) = 0
    THEN choice_raises(numbers)
    ELSE choice_raises(lang_numbers(numbers, language))

\* mutant: the number is taken from the whole pool whatever the language
choose_from_number_any(numbers, language) ==
    choice(numbers)

\* choose_from_number: the numbers it can return
choose_from_number(numbers, language) ==
    IF Len(lang_numbers(numbers, language)) = 0
    THEN choice(numbers)
    ELSE choice(lang_numbers(numbers, language))

\* get_numbers raises unless the provider answers with the status 200
get_numbers_raises(status_code) == status_code # 200

\* get_numbers: the list it was given, extended by the numbers fetched;
\* it returns that same list
get_numbers(numbers, data) == numbers \o data

\* mount_router: phone_numbers.extend(get_numbers(phone_numbers, auth)), the
\* pool get_numbers has extended is extended by what get_numbers returns
refreshed(numbers, data) ==
    get_numbers(numbers, data) \o get_numbers(numbers, data)

\* the numbers (Number.number, Number.country) the provider answers the
\* request of get_numbers with
NumbersResponses ==
    [none |-> <<>>,
     one |-> <<[number |-> "nr_de", country |-> "de"]>>,
     two |-> <<[number |-> "nr_de", country |-> "de"],
               [number |-> "nr_se", country |-> "se"]>>]

StatusCodes == {200, 500}

----------------------------------------------------------------------------
(* Direct use of the Registry interface, as tests/test_ongoing_calls.py *)

\* start_elks_call has not been called
NotStarted ==
    [posts |-> 0, from_nr |-> "", state |-> "", returned |-> "",
     raised |-> FALSE]

NoRet == [op |-> "none", arg |-> "", raised |-> FALSE, call |-> None]

Result(op, arg, raised, call) ==
    [op |-> op, arg |-> arg, raised |-> raised, call |-> call]

\* one more operation of a sequence of at most MaxOps
Operation ==
    /\ ops < MaxOps
    /\ ops' = ops + 1

RegTick ==
    /\ Operation
    /\ now' = now + 1
    /\ UNCHANGED <<calls, ret>>
    /\ UNCHANGED engineVars

RegAddCall(p, callid, lang, user, dest) ==
    /\ Operation
    /\ IF unique_call(calls, p, callid)
       THEN /\ calls' = add_call(calls, p, callid, lang, user, dest)
            /\ ret' = Result("add_call", callid, FALSE,
                             new_call(p, callid, lang, user, dest))
       ELSE /\ ret' = Result("add_call", callid, TRUE, None)
            /\ UNCHANGED calls
    /\ UNCHANGED now
    /\ UNCHANGED engineVars

RegGetCall(callid) ==
    /\ Operation
    /\ ret' = Result("get_call", callid, get_call_raises(calls, callid),
                     IF get_call_raises(calls, callid) THEN None
                     ELSE get_call(calls, callid))
    /\ UNCHANGED <<calls, now>>
    /\ UNCHANGED engineVars

RegConnectCall(call) ==
    /\ Operation
    /\ calls' = connect_call(calls, call, now)
    /\ ret' = Result("connect_call", call.provider_call_id, FALSE,
                     [call EXCEPT !.connected_at = now])
    /\ UNCHANGED now
    /\ UNCHANGED engineVars

RegEndCall(call) ==
    /\ Operation
    /\ calls' = end_call(calls, call, now)
    /\ ret' = Result("end_call", call.provider_call_id, FALSE,
                     [call EXCEPT !.ended_at = now])
    /\ UNCHANGED now
    /\ UNCHANGED engineVars

RegRemoveCall(callid) ==
    /\ Operation
    /\ IF remove_call_raises(calls, callid)
       THEN /\ ret' = Result("remove_call", callid, TRUE, None)
            /\ UNCHANGED calls
       ELSE /\ calls' = remove_call(calls, callid)
            /\ ret' = Result("remove_call", callid, FALSE, None)
    /\ UNCHANGED now
    /\ UNCHANGED engineVars

RegDestinationIsInCall(dest) ==
    /\ Operation
    /\ ret' = Result(IF destination_is_in_call(calls, dest)
                     THEN "in_call" ELSE "not_in_call", dest, FALSE, None)
    /\ UNCHANGED <<calls, now>>
    /\ UNCHANGED engineVars

\* no call has been started and no request made
NoCalls ==
    /\ calls = {}
    /\ log = [c \in CallIds |-> <<>>]
    /\ now = 0
    /\ prov = [c \in CallIds |-> "none"]
    /\ response = [c \in CallIds |-> "none"]
    /\ pc = [c \in CallIds |-> "idle"]
    /\ loc = [c \in CallIds |-> [call |-> None, new_destination |-> ""]]
    /\ hpc = [c \in CallIds |-> "idle"]
    /\ hloc = [c \in CallIds |-> [call |-> None, start |-> TRUE]]
    /\ hangups = [c \in CallIds |-> 0]
    /\ started = [c \in CallIds |-> NotStarted]
    /\ ret = NoRet
    /\ ops = 0

\* the process after the import of elks.py: the pool is the empty list
Loaded ==
    /\ NoCalls
    /\ phone_numbers = <<>>

\* the process serving: mount_router has fetched the one number of the account
Init ==
    /\ NoCalls
    /\ phone_numbers = refreshed(<<>>, NumbersResponses.one)

RegNext ==
    \/ RegTick
    \/ \E p \in Providers, c \in CallIds, u \in Users, d \in Destinations :
          RegAddCall(p, c, u.user_language, u.user_id, d)
    \/ \E c \in CallIds : RegGetCall(c)
    \/ \E call \in calls : RegConnectCall(call)
    \/ \E call \in calls : RegEndCall(call)
    \/ \E c \in CallIds : RegRemoveCall(c)
    \/ \E d \in Destinations : RegDestinationIsInCall(d)

RegistrySpec == Init /\ [][RegNext]_vars

----------------------------------------------------------------------------
(* Selection log: query.log_destination_selection *)

log_destination_selection(l, destination, event, call_id) ==
    [l EXCEPT ![call_id] =
        Append(@, [destination |-> destination, event |-> event,
                   call_id |-> call_id])]

----------------------------------------------------------------------------
(* IVR flow: phone/elks/elks.py *)

Responses == {"ongoing", "success", "busy", "failed"}
UserLanguages == {"en"}
\* the users of the two calls of the IVR flow, and the outcomes of their POST
UserOf == [c \in CallIds |-> IF c = "c1" THEN "u1" ELSE "u2"]
EngineOutcomes == {"success", "failed", "non_2xx"}
Inputs == {"1", "2", "5", "noinput"}
DigitRoutes == {"instant_next", "arguments", "instant_alternative"}

NoLocals == [call |-> None, new_destination |-> ""]
NoHangupLocals == [call |-> None, start |-> TRUE]

\* the provider calls the IVR webhooks of a call one after the other, and
\* not while the hangup of the call is being handled; the webhook it was
\* told to call next may still arrive once the hangup has been handled
Deliverable(c) ==
    /\ pc[c] = "idle"
    /\ hangups[c] = 0 \/ hpc[c] \in {"done", "raised"}

\* the addresses requests come from: one of the provider's, one that is not,
\* and a request whose client address is not known (request.client is None)
ClientIps == {"elk", "stranger", "unknown"}
allowed_ips == {"elk"}

\* mutant: a request without a client address is let through
verify_origin_raises_skips_unknown(client_ip) ==
    client_ip # "unknown" /\ client_ip \notin allowed_ips

\* verify_origin: HTTPException(403) unless the client is one of allowed_ips
verify_origin_raises(client_ip) ==
    client_ip \notin allowed_ips

\* the answer to a request verify_origin refused: the handler is not run
forbidden(c) ==
    /\ response' = [response EXCEPT ![c] = "403"]
    /\ UNCHANGED <<calls, log, now, prov, pc, loc, hpc, hloc, hangups, started,
                   ret, ops, phone_numbers>>

\* a request to an endpoint of the router: verify_origin, then the handler
request(client_ip, c, handler) ==
    IF verify_origin_raises(client_ip) THEN forbidden(c) ELSE handler

\* mount_router: the pool is refreshed unless telephony.dry_run is set
mount_router(dry_run, status_code, numbers) ==
    /\ ret = NoRet
    /\ IF dry_run
       THEN /\ ret' = Result("mount_router", "dry_run", FALSE, None)
            /\ UNCHANGED phone_numbers
       ELSE IF get_numbers_raises(status_code)
       THEN /\ ret' = Result("mount_router", numbers, TRUE, None)
            /\ UNCHANGED phone_numbers
       ELSE /\ ret' = Result("mount_router", numbers, FALSE, None)
            /\ phone_numbers' =
                  refreshed(phone_numbers, NumbersResponses[numbers])
    /\ UNCHANGED <<calls, log, now, prov, response, pc, loc, hpc, hloc,
                   hangups, started, ops>>

\* mount_router has returned: the application takes requests
Mounted == ret.op = "mount_router" /\ ~ ret.raised

Tick ==
    /\ now < MaxTime
    /\ now' = now + 1
    /\ UNCHANGED <<calls, ret, ops>>
    /\ UNCHANGED engineVars

\* the POST of start_elks_call fails or answers with another status than 2xx
RequestErrors == {"transport_error", "non_2xx"}

\* what the provider does with the POST of start_elks_call
Outcomes == Responses \cup RequestErrors

\* mutant: no early return on the state failed, the Call is registered
start_elks_call_registers_failed(c, user, dest, lang, outcome) ==
    /\ prov[c] = "none"
    /\ pc[c] = "idle"
    /\ started[c] = NotStarted
    /\ IF choose_from_number_raises(phone_numbers, lang)
       THEN /\ started' = [started EXCEPT ![c] =
                             [posts |-> 0, from_nr |-> "", state |-> "",
                              returned |-> "", raised |-> TRUE]]
            /\ UNCHANGED <<calls, prov, pc, loc>>
       ELSE \E phone_number \in choose_from_number(phone_numbers, lang) :
            IF outcome \in RequestErrors
            THEN /\ started' = [started EXCEPT ![c] =
                                  [posts |-> 1,
                                   from_nr |-> phone_number.number,
                                   state |-> "", returned |-> "",
                                   raised |-> TRUE]]
                 /\ UNCHANGED <<calls, prov, pc, loc>>
            ELSE /\ started' = [started EXCEPT ![c] =
                                  [posts |-> 1,
                                   from_nr |-> phone_number.number,
                                   state |-> outcome, returned |-> "",
                                   raised |-> FALSE]]
                 /\ calls' = add_call(calls, "46elks", c, lang, user, dest)
                 /\ prov' = [prov EXCEPT ![c] = "instant_main_menu"]
                 /\ pc' = [pc EXCEPT ![c] = "start_log"]
                 /\ loc' = [loc EXCEPT ![c] =
                              [call |-> new_call("46elks", c, lang, user,
                                                 dest),
                               new_destination |-> ""]]
    /\ UNCHANGED <<log, now, hpc, hloc, hangups, response,
                   ret, ops, phone_numbers>>

\* mutant: a failed POST is repeated once before the error is raised
start_elks_call_retries(c, user, dest, lang, outcome) ==
    /\ prov[c] = "none"
    /\ pc[c] = "idle"
    /\ started[c] = NotStarted
    /\ IF choose_from_number_raises(phone_numbers, lang)
       THEN /\ started' = [started EXCEPT ![c] =
                             [posts |-> 0, from_nr |-> "", state |-> "",
                              returned |-> "", raised |-> TRUE]]
            /\ UNCHANGED <<calls, prov, pc, loc>>
       ELSE \E phone_number \in choose_from_number(phone_numbers, lang) :
            IF outcome \in RequestErrors
            THEN /\ started' = [started EXCEPT ![c] =
                                  [posts |-> 2,
                                   from_nr |-> phone_number.number,
                                   state |-> "", returned |-> "",
                                   raised |-> TRUE]]
                 /\ UNCHANGED <<calls, prov, pc, loc>>
            ELSE IF outcome = "failed"
            THEN /\ started' = [started EXCEPT ![c] =
                                  [posts |-> 1,
                                   from_nr |-> phone_number.number,
                                   state |-> outcome, returned |-> outcome,
                                   raised |-> FALSE]]
                 /\ prov' = [prov EXCEPT ![c] = "ended"]
                 /\ UNCHANGED <<calls, pc, loc>>
            ELSE /\ started' = [started EXCEPT ![c] =
                                  [posts |-> 1,
                                   from_nr |-> phone_number.number,
                                   state |-> outcome, returned |-> "",
                                   raised |-> FALSE]]
                 /\ calls' = add_call(calls, "46elks", c, lang, user, dest)
                 /\ prov' = [prov EXCEPT ![c] = "instant_main_menu"]
                 /\ pc' = [pc EXCEPT ![c] = "start_log"]
                 /\ loc' = [loc EXCEPT ![c] =
                              [call |-> new_call("46elks", c, lang, user,
                                                 dest),
                               new_destination |-> ""]]
    /\ UNCHANGED <<log, now, hpc, hloc, hangups, response,
                   ret, ops, phone_numbers>>

\* mutant: the POST is made before the number to call from is chosen
start_elks_call_posts_first(c, user, dest, lang, outcome) ==
    /\ prov[c] = "none"
    /\ pc[c] = "idle"
    /\ started[c] = NotStarted
    /\ IF choose_from_number_raises(phone_numbers, lang)
       THEN /\ started' = [started EXCEPT ![c] =
                             [posts |-> 1, from_nr |-> "", state |-> "",
                              returned |-> "", raised |-> TRUE]]
            /\ UNCHANGED <<calls, prov, pc, loc>>
       ELSE \E phone_number \in choose_from_number(phone_numbers, lang) :
            IF outcome \in RequestErrors
            THEN /\ started' = [started EXCEPT ![c] =
                                  [posts |-> 1,
                                   from_nr |-> phone_number.number,
                                   state |-> "", returned |-> "",
                                   raised |-> TRUE]]
                 /\ UNCHANGED <<calls, prov, pc, loc>>
            ELSE IF outcome = "failed"
            THEN /\ started' = [started EXCEPT ![c] =
                                  [posts |-> 1,
                                   from_nr |-> phone_number.number,
                                   state |-> outcome, returned |-> outcome,
                                   raised |-> FALSE]]
                 /\ prov' = [prov EXCEPT ![c] = "ended"]
                 /\ UNCHANGED <<calls, pc, loc>>
            ELSE /\ started' = [started EXCEPT ![c] =
                                  [posts |-> 1,
                                   from_nr |-> phone_number.number,
                                   state |-> outcome, returned |-> "",
                                   raised |-> FALSE]]
                 /\ calls' = add_call(calls, "46elks", c, lang, user, dest)
                 /\ prov' = [prov EXCEPT ![c] = "instant_main_menu"]
                 /\ pc' = [pc EXCEPT ![c] = "start_log"]
                 /\ loc' = [loc EXCEPT ![c] =
                              [call |-> new_call("46elks", c, lang, user,
                                                 dest),
                               new_destination |-> ""]]
    /\ UNCHANGED <<log, now, hpc, hloc, hangups, response,
                   ret, ops, phone_numbers>>

\* start_elks_call up to the commit of add_call: choose_from_number, the POST
\* and add_call
start_elks_call(c, user, dest, lang, outcome) ==
    /\ prov[c] = "none"
    /\ pc[c] = "idle"
    /\ started[c] = NotStarted
    /\ IF choose_from_number_raises(phone_numbers, lang)
       THEN /\ started' = [started EXCEPT ![c] =
                             [posts |-> 0, from_nr |-> "", state |-> "",
                              returned |-> "", raised |-> TRUE]]
            /\ UNCHANGED <<calls, prov, pc, loc>>
       ELSE \E phone_number \in choose_from_number(phone_numbers, lang) :
            IF outcome \in RequestErrors
            THEN /\ started' = [started EXCEPT ![c] =
                                  [posts |-> 1,
                                   from_nr |-> phone_number.number,
                                   state |-> "", returned |-> "",
                                   raised |-> TRUE]]
                 /\ UNCHANGED <<calls, prov, pc, loc>>
            ELSE IF outcome = "failed"
            THEN /\ started' = [started EXCEPT ![c] =
                                  [posts |-> 1,
                                   from_nr |-> phone_number.number,
                                   state |-> outcome, returned |-> outcome,
                                   raised |-> FALSE]]
                 /\ prov' = [prov EXCEPT ![c] = "ended"]
                 /\ UNCHANGED <<calls, pc, loc>>
            ELSE /\ started' = [started EXCEPT ![c] =
                                  [posts |-> 1,
                                   from_nr |-> phone_number.number,
                                   state |-> outcome, returned |-> "",
                                   raised |-> FALSE]]
                 /\ calls' = add_call(calls, "46elks", c, lang, user, dest)
                 /\ prov' = [prov EXCEPT ![c] = "instant_main_menu"]
                 /\ pc' = [pc EXCEPT ![c] = "start_log"]
                 /\ loc' = [loc EXCEPT ![c] =
                              [call |-> new_call("46elks", c, lang, user,
                                                 dest),
                               new_destination |-> ""]]
    /\ UNCHANGED <<log, now, hpc, hloc, hangups, response,
                   ret, ops, phone_numbers>>

\* mutant: start_elks_call returns without the CALLING_USER event
start_elks_call_log_skipped(c) ==
    /\ pc[c] = "start_log"
    /\ UNCHANGED log
    /\ started' = [started EXCEPT ![c].returned = started[c].state]
    /\ pc' = [pc EXCEPT ![c] = "idle"]
    /\ loc' = [loc EXCEPT ![c] = NoLocals]
    /\ UNCHANGED <<calls, now, prov, hpc, hloc, hangups, response,
                   ret, ops, phone_numbers>>

\* mutant: the number the call was started from is taken out of the pool
start_elks_call_log_takes_number(c) ==
    /\ pc[c] = "start_log"
    /\ log' = log_destination_selection(log, loc[c].call.destination_id,
                                        "CALLING_USER", c)
    /\ started' = [started EXCEPT ![c].returned = started[c].state]
    /\ pc' = [pc EXCEPT ![c] = "idle"]
    /\ loc' = [loc EXCEPT ![c] = NoLocals]
    /\ phone_numbers' =
          SelectSeq(phone_numbers,
                    LAMBDA nr : nr.number # started[c].from_nr)
    /\ UNCHANGED <<calls, now, prov, hpc, hloc, hangups, response,
                   ret, ops>>

\* start_elks_call: the CALLING_USER event, its commit and the return
start_elks_call_log(c) ==
    /\ pc[c] = "start_log"
    /\ log' = log_destination_selection(log, loc[c].call.destination_id,
                                        "CALLING_USER", c)
    /\ started' = [started EXCEPT ![c].returned = started[c].state]
    /\ pc' = [pc EXCEPT ![c] = "idle"]
    /\ loc' = [loc EXCEPT ![c] = NoLocals]
    /\ UNCHANGED <<calls, now, prov, hpc, hloc, hangups, response,
                   ret, ops, phone_numbers>>

\* mutant: the main menu is answered without the IN_MENU event
instant_main_menu_unlogged(c) ==
    /\ prov[c] = "instant_main_menu"
    /\ Deliverable(c)
    /\ IF get_call(calls, c) = None
       THEN /\ prov' = [prov EXCEPT ![c] = "error"]
            /\ response' = [response EXCEPT ![c] = "error"]
            /\ UNCHANGED log
       ELSE /\ UNCHANGED log
            /\ prov' = [prov EXCEPT ![c] = "instant_next"]
            /\ response' = [response EXCEPT ![c] = "ivr"]
    /\ UNCHANGED <<calls, now, pc, loc, hpc, hloc, hangups, started,
                   ret, ops, phone_numbers>>

\* instant_main_menu: get_call, the IN_MENU event and the menu
instant_main_menu(c) ==
    /\ prov[c] = "instant_main_menu"
    /\ Deliverable(c)
    /\ IF get_call(calls, c) = None
       THEN /\ prov' = [prov EXCEPT ![c] = "error"]
            /\ response' = [response EXCEPT ![c] = "error"]
            /\ UNCHANGED log
       ELSE /\ log' = log_destination_selection(
                         log, get_call(calls, c).destination_id, "IN_MENU", c)
            /\ prov' = [prov EXCEPT ![c] = "instant_next"]
            /\ response' = [response EXCEPT ![c] = "ivr"]
    /\ UNCHANGED <<calls, now, pc, loc, hpc, hloc, hangups, started,
                   ret, ops, phone_numbers>>

\* get_alternative_destination: the retry calls itself without its argument
get_alternative_destination_raises(rows, new_destination) ==
    destination_is_in_call(rows, new_destination)

\* mutant: the availability test of instant_connect_to_mep is inverted
instant_connect_to_mep_inverted(c, call) ==
    IF call = None
    THEN /\ prov' = [prov EXCEPT ![c] = "error"]
         /\ response' = [response EXCEPT ![c] = "error"]
         /\ UNCHANGED <<calls, log, pc, loc>>
    ELSE IF destination_is_in_call(calls, call.destination_id)
    THEN /\ log' = log_destination_selection(
                      log, call.destination_id, "CALLING_DESTINATION", c)
         /\ prov' = [prov EXCEPT ![c] = "instant_connect"]
         /\ response' = [response EXCEPT ![c] = "play"]
         /\ UNCHANGED <<calls, pc, loc>>
    ELSE \E new_destination \in Destinations :
           IF get_alternative_destination_raises(calls, new_destination)
           THEN /\ prov' = [prov EXCEPT ![c] = "error"]
                /\ response' = [response EXCEPT ![c] = "error"]
                /\ UNCHANGED <<calls, log, pc, loc>>
           ELSE /\ calls' = remove_call(calls, c)
                /\ pc' = [pc EXCEPT ![c] = "alt_add"]
                /\ loc' = [loc EXCEPT ![c] =
                             [call |-> call,
                              new_destination |-> new_destination]]
                /\ UNCHANGED <<log, prov, response>>

\* instant_connect_to_mep up to its first commit
instant_connect_to_mep(c, call) ==
    IF call = None
    THEN /\ prov' = [prov EXCEPT ![c] = "error"]
         /\ response' = [response EXCEPT ![c] = "error"]
         /\ UNCHANGED <<calls, log, pc, loc>>
    ELSE IF ~ destination_is_in_call(calls, call.destination_id)
    THEN /\ log' = log_destination_selection(
                      log, call.destination_id, "CALLING_DESTINATION", c)
         /\ prov' = [prov EXCEPT ![c] = "instant_connect"]
         /\ response' = [response EXCEPT ![c] = "play"]
         /\ UNCHANGED <<calls, pc, loc>>
    ELSE \E new_destination \in Destinations :
           IF get_alternative_destination_raises(calls, new_destination)
           THEN /\ prov' = [prov EXCEPT ![c] = "error"]
                /\ response' = [response EXCEPT ![c] = "error"]
                /\ UNCHANGED <<calls, log, pc, loc>>
           ELSE /\ calls' = remove_call(calls, c)
                /\ pc' = [pc EXCEPT ![c] = "alt_add"]
                /\ loc' = [loc EXCEPT ![c] =
                             [call |-> call,
                              new_destination |-> new_destination]]
                /\ UNCHANGED <<log, prov, response>>

\* mutant: no input is taken as the end of the call and the Call is removed
digit_collect_noinput_removes(c, result) ==
    /\ prov[c] \in DigitRoutes
    /\ Deliverable(c)
    /\ IF result = "noinput"
       THEN /\ prov' = [prov EXCEPT ![c] = "ended"]
            /\ response' = [response EXCEPT ![c] = "null"]
            /\ calls' = calls \ get_call_rows(calls, c)
            /\ UNCHANGED <<log, pc, loc>>
       ELSE IF result = "1"
       THEN instant_connect_to_mep(c, get_call(calls, c))
       ELSE IF result = "5" /\ prov[c] = "instant_next"
       THEN /\ prov' = [prov EXCEPT ![c] =
                          IF get_call(calls, c) = None THEN "error"
                          ELSE "arguments"]
            /\ response' = [response EXCEPT ![c] =
                              IF get_call(calls, c) = None THEN "error"
                              ELSE "ivr"]
            /\ UNCHANGED <<calls, log, pc, loc>>
       ELSE IF result = "2" /\ prov[c] = "instant_alternative"
       THEN /\ prov' = [prov EXCEPT ![c] =
                          IF get_call(calls, c) = None THEN "error"
                          ELSE "ended"]
            /\ response' = [response EXCEPT ![c] =
                              IF get_call(calls, c) = None THEN "error"
                              ELSE "play"]
            /\ UNCHANGED <<calls, log, pc, loc>>
       ELSE /\ prov' = [prov EXCEPT ![c] = "ended"]
            /\ response' = [response EXCEPT ![c] = "null"]
            /\ UNCHANGED <<calls, log, pc, loc>>
    /\ UNCHANGED <<now, hpc, hloc, hangups, started, ret, ops, phone_numbers>>

\* next_route, ivr_choice_arguments, instant_alternative
digit_collect(c, result) ==
    /\ prov[c] \in DigitRoutes
    /\ Deliverable(c)
    /\ IF result = "noinput"
       THEN /\ prov' = [prov EXCEPT ![c] = "ended"]
            /\ response' = [response EXCEPT ![c] = "null"]
            /\ UNCHANGED <<calls, log, pc, loc>>
       ELSE IF result = "1"
       THEN instant_connect_to_mep(c, get_call(calls, c))
       ELSE IF result = "5" /\ prov[c] = "instant_next"
       THEN /\ prov' = [prov EXCEPT ![c] =
                          IF get_call(calls, c) = None THEN "error"
                          ELSE "arguments"]
            /\ response' = [response EXCEPT ![c] =
                              IF get_call(calls, c) = None THEN "error"
                              ELSE "ivr"]
            /\ UNCHANGED <<calls, log, pc, loc>>
       ELSE IF result = "2" /\ prov[c] = "instant_alternative"
       THEN /\ prov' = [prov EXCEPT ![c] =
                          IF get_call(calls, c) = None THEN "error"
                          ELSE "ended"]
            /\ response' = [response EXCEPT ![c] =
                              IF get_call(calls, c) = None THEN "error"
                              ELSE "play"]
            /\ UNCHANGED <<calls, log, pc, loc>>
       ELSE /\ prov' = [prov EXCEPT ![c] = "ended"]
            /\ response' = [response EXCEPT ![c] = "null"]
            /\ UNCHANGED <<calls, log, pc, loc>>
    /\ UNCHANGED <<now, hpc, hloc, hangups, started, ret, ops, phone_numbers>>

\* mutant: the Call is added again for the Destination it had
alternative_add_call_old_destination(c) ==
    /\ pc[c] = "alt_add"
    /\ IF unique_call(calls, provider, c)
       THEN /\ calls' = add_call(calls, provider, c,
                                 loc[c].call.user_language,
                                 loc[c].call.user_id,
                                 loc[c].call.destination_id)
            /\ pc' = [pc EXCEPT ![c] = "alt_log"]
            /\ UNCHANGED <<prov, response, loc>>
       ELSE /\ prov' = [prov EXCEPT ![c] = "error"]
            /\ response' = [response EXCEPT ![c] = "error"]
            /\ pc' = [pc EXCEPT ![c] = "idle"]
            /\ loc' = [loc EXCEPT ![c] = NoLocals]
            /\ UNCHANGED calls
    /\ UNCHANGED <<log, now, hpc, hloc, hangups, started,
                   ret, ops, phone_numbers>>

\* instant_connect_to_mep: add_call for the new suggestion
alternative_add_call(c) ==
    /\ pc[c] = "alt_add"
    /\ IF unique_call(calls, provider, c)
       THEN /\ calls' = add_call(calls, provider, c,
                                 loc[c].call.user_language,
                                 loc[c].call.user_id,
                                 loc[c].new_destination)
            /\ pc' = [pc EXCEPT ![c] = "alt_log"]
            /\ UNCHANGED <<prov, response, loc>>
       ELSE /\ prov' = [prov EXCEPT ![c] = "error"]
            /\ response' = [response EXCEPT ![c] = "error"]
            /\ pc' = [pc EXCEPT ![c] = "idle"]
            /\ loc' = [loc EXCEPT ![c] = NoLocals]
            /\ UNCHANGED calls
    /\ UNCHANGED <<log, now, hpc, hloc, hangups, started,
                   ret, ops, phone_numbers>>

\* instant_connect_to_mep: get_call, the IVR_SUGGESTED event and its commit
alternative_log(c) ==
    /\ pc[c] = "alt_log"
    /\ IF get_call(calls, c) = None
       THEN /\ prov' = [prov EXCEPT ![c] = "error"]
            /\ response' = [response EXCEPT ![c] = "error"]
            /\ UNCHANGED log
       ELSE /\ log' = log_destination_selection(
                         log, loc[c].new_destination, "IVR_SUGGESTED", c)
            /\ prov' = [prov EXCEPT ![c] = "instant_alternative"]
            /\ response' = [response EXCEPT ![c] = "ivr"]
    /\ pc' = [pc EXCEPT ![c] = "idle"]
    /\ loc' = [loc EXCEPT ![c] = NoLocals]
    /\ UNCHANGED <<calls, now, hpc, hloc, hangups, started,
                   ret, ops, phone_numbers>>

\* instant_connect up to the commit of connect_call
instant_connect(c) ==
    /\ prov[c] = "instant_connect"
    /\ Deliverable(c)
    /\ IF get_call(calls, c) = None
       THEN /\ prov' = [prov EXCEPT ![c] = "error"]
            /\ response' = [response EXCEPT ![c] = "error"]
            /\ UNCHANGED <<calls, pc, loc>>
       ELSE /\ calls' = connect_call(calls, get_call(calls, c), now)
            /\ pc' = [pc EXCEPT ![c] = "connect_log"]
            /\ loc' = [loc EXCEPT ![c] =
                         [call |-> [get_call(calls, c)
                                      EXCEPT !.connected_at = now],
                          new_destination |-> ""]]
            /\ UNCHANGED <<prov, response>>
    /\ UNCHANGED <<log, now, hpc, hloc, hangups, started,
                   ret, ops, phone_numbers>>

\* instant_connect: the DESTINATION_CONNECTED event and its commit
instant_connect_log(c) ==
    /\ pc[c] = "connect_log"
    /\ log' = log_destination_selection(
                 log, loc[c].call.destination_id, "DESTINATION_CONNECTED", c)
    /\ prov' = [prov EXCEPT ![c] = "thanks_for_calling"]
    /\ response' = [response EXCEPT ![c] = "connect"]
    /\ pc' = [pc EXCEPT ![c] = "idle"]
    /\ loc' = [loc EXCEPT ![c] = NoLocals]
    /\ UNCHANGED <<calls, now, hpc, hloc, hangups, started,
                   ret, ops, phone_numbers>>

thanks_for_calling(c) ==
    /\ prov[c] = "thanks_for_calling"
    /\ Deliverable(c)
    /\ prov' = [prov EXCEPT ![c] = "ended"]
    /\ response' = [response EXCEPT ![c] = "play"]
    /\ UNCHANGED <<calls, log, now, pc, loc, hpc, hloc, hangups, started,
                   ret, ops, phone_numbers>>

\* hangup: seconds between connect_call and now
connected_seconds(call, t) == t - call.connected_at

\* mutant: a call connected exactly the threshold counts as a long call
hangup_event_strict(call, t) ==
    IF call.connected_at # NULL
    THEN IF connected_seconds(call, t) < phone_call_threshhold
         THEN "FINISHED_SHORT_CALL"
         ELSE "FINISHED_CALL"
    ELSE "CALL_ABORTED"

\* mutant: connected_at is not tested before the duration is taken
hangup_event_unchecked(call, t) ==
    IF connected_seconds(call, t) <= phone_call_threshhold
    THEN "FINISHED_SHORT_CALL"
    ELSE "FINISHED_CALL"

\* mutant: the hangup of a call never connected is logged as a failed call
hangup_event_unconnected_failed(call, t) ==
    IF call.connected_at # NULL
    THEN IF connected_seconds(call, t) <= phone_call_threshhold
         THEN "FINISHED_SHORT_CALL"
         ELSE "FINISHED_CALL"
    ELSE "CALLING_USER_FAILED"

\* hangup: the event logged for the call found
hangup_event(call, t) ==
    IF call.connected_at # NULL
    THEN IF connected_seconds(call, t) <= phone_call_threshhold
         THEN "FINISHED_SHORT_CALL"
         ELSE "FINISHED_CALL"
    ELSE "CALL_ABORTED"

\* hangup: call.connected_at of a call that get_call did not find
hangup_raises(call) == call = None

\* the seconds a hangup webhook reports as the duration of the call
Durations == {0, 2}

\* hangup up to the commit of the finished or aborted event
hangup(c, start, duration) ==
    /\ prov[c] # "none"
    /\ hpc[c] \in {"idle", "done", "raised"}
    /\ hangups[c] < MaxHangups
    /\ hangups' = [hangups EXCEPT ![c] = @ + 1]
    /\ IF hangup_raises(get_call(calls, c))
       THEN /\ hpc' = [hpc EXCEPT ![c] = "raised"]
            /\ UNCHANGED <<log, hloc>>
       ELSE /\ log' = log_destination_selection(
                         log, get_call(calls, c).destination_id,
                         hangup_event(get_call(calls, c), now), c)
            /\ hpc' = [hpc EXCEPT ![c] = "remove"]
            /\ hloc' = [hloc EXCEPT ![c] =
                          [call |-> get_call(calls, c), start |-> start]]
    /\ UNCHANGED <<calls, now, prov, pc, loc, started,
                   response, ret, ops, phone_numbers>>

\* hangup: remove_call
hangup_remove_call(c) ==
    /\ hpc[c] = "remove"
    /\ IF remove_call_raises(calls, c)
       THEN /\ hpc' = [hpc EXCEPT ![c] = "raised"]
            /\ hloc' = [hloc EXCEPT ![c] = NoHangupLocals]
            /\ UNCHANGED calls
       ELSE /\ calls' = remove_call(calls, c)
            /\ hpc' = [hpc EXCEPT ![c] =
                         IF hloc[c].start THEN "done" ELSE "failed_log"]
            /\ hloc' = [hloc EXCEPT ![c] =
                          IF hloc[c].start THEN NoHangupLocals ELSE @]
    /\ UNCHANGED <<log, now, prov, pc, loc, hangups, started,
                   response, ret, ops, phone_numbers>>

\* mutant: "exit if error" returns without logging
hangup_failed_log_skipped(c) ==
    /\ hpc[c] = "failed_log"
    /\ hpc' = [hpc EXCEPT ![c] = "done"]
    /\ hloc' = [hloc EXCEPT ![c] = NoHangupLocals]
    /\ UNCHANGED <<calls, log, now, prov, pc, loc, hangups, started,
                   response, ret, ops, phone_numbers>>

\* mutant: "exit if error" rewrites the last event of the call
hangup_failed_log_overwrites(c) ==
    /\ hpc[c] = "failed_log"
    /\ log' = [log EXCEPT ![c] =
                 [@ EXCEPT ![Len(@)].event = "CALLING_USER_FAILED"]]
    /\ hpc' = [hpc EXCEPT ![c] = "done"]
    /\ hloc' = [hloc EXCEPT ![c] = NoHangupLocals]
    /\ UNCHANGED <<calls, now, prov, pc, loc, hangups, started,
                   response, ret, ops, phone_numbers>>

\* hangup: "exit if error", the CALLING_USER_FAILED event and its commit
hangup_failed_log(c) ==
    /\ hpc[c] = "failed_log"
    /\ log' = log_destination_selection(
                 log, hloc[c].call.destination_id, "CALLING_USER_FAILED", c)
    /\ hpc' = [hpc EXCEPT ![c] = "done"]
    /\ hloc' = [hloc EXCEPT ![c] = NoHangupLocals]
    /\ UNCHANGED <<calls, now, prov, pc, loc, hangups, started,
                   response, ret, ops, phone_numbers>>

Next ==
    \/ Tick
    \/ \E c \in CallIds, d \in Destinations, l \in UserLanguages,
             o \in EngineOutcomes :
          start_elks_call(c, UserOf[c], d, l, o)
    \/ \E c \in CallIds : start_elks_call_log(c)
    \/ \E c \in CallIds : instant_main_menu(c)
    \/ \E c \in CallIds, r \in Inputs : digit_collect(c, r)
    \/ \E c \in CallIds : alternative_add_call(c)
    \/ \E c \in CallIds : alternative_log(c)
    \/ \E c \in CallIds : instant_connect(c)
    \/ \E c \in CallIds : instant_connect_log(c)
    \/ \E c \in CallIds : thanks_for_calling(c)
    \/ \E c \in CallIds, start \in BOOLEAN, duration \in Durations :
          hangup(c, start, duration)
    \/ \E c \in CallIds : hangup_remove_call(c)
    \/ \E c \in CallIds : hangup_failed_log(c)

Spec == Init /\ [][Next]_vars

\* start_elks_call alone, for every caller and every outcome of the POST
StartNext ==
    \/ \E c \in CallIds, u \in UserIds, d \in Destinations, l \in Languages,
             o \in Outcomes :
          start_elks_call(c, u, d, l, o)
    \/ \E c \in CallIds : start_elks_call_log(c)

StartSpec == Init /\ [][StartNext]_vars

\* the requests of any origin to the endpoints of the router, for one call
OriginCallIds == {"c1"}

OriginNext ==
    \/ \E c \in OriginCallIds, d \in Destinations, l \in UserLanguages,
             o \in EngineOutcomes :
          start_elks_call(c, UserOf[c], d, l, o)
    \/ \E c \in OriginCallIds : start_elks_call_log(c)
    \/ \E c \in OriginCallIds, ip \in ClientIps :
          request(ip, c, instant_main_menu(c))
    \/ \E c \in OriginCallIds, ip \in ClientIps, r \in Inputs :
          request(ip, c, digit_collect(c, r))
    \/ \E c \in OriginCallIds, ip \in ClientIps :
          request(ip, c, instant_connect(c))
    \/ \E c \in OriginCallIds : instant_connect_log(c)
    \/ \E c \in OriginCallIds, ip \in ClientIps :
          request(ip, c, thanks_for_calling(c))
    \/ \E c \in OriginCallIds, ip \in ClientIps, start \in BOOLEAN,
             duration \in Durations :
          request(ip, c, hangup(c, start, duration))
    \/ \E c \in OriginCallIds : hangup_remove_call(c)
    \/ \E c \in OriginCallIds : hangup_failed_log(c)

OriginSpec == Init /\ [][OriginNext]_vars

\* the number of times the bridge webhook of a call is delivered at most
MaxDeliveries == 2

\* the DESTINATION_CONNECTED events logged for call id c
connected_events(c) ==
    {i \in 1..Len(log[c]) : log[c][i].event = "DESTINATION_CONNECTED"}

\* the provider delivers the bridge webhook of a call once more: the
\* instant_connect endpoint takes every request of the provider
instant_connect_again(c) ==
    /\ prov[c] = "thanks_for_calling"
    /\ Deliverable(c)
    /\ Cardinality(connected_events(c)) < MaxDeliveries
    /\ prov' = [prov EXCEPT ![c] = "instant_connect"]
    /\ UNCHANGED <<calls, log, now, response, pc, loc, hpc, hloc, hangups,
                   started, ret, ops, phone_numbers>>

\* the process from the import on: mount_router, then one call, started for
\* every language and outcome, whose bridge webhook may be delivered again
ServerNext ==
    \/ \E dry_run \in BOOLEAN, status_code \in StatusCodes,
             numbers \in DOMAIN NumbersResponses :
          mount_router(dry_run, status_code, numbers)
    \/ Mounted /\ Tick
    \/ \E c \in OriginCallIds, d \in Destinations, l \in Languages,
             o \in Outcomes :
          Mounted /\ start_elks_call(c, UserOf[c], d, l, o)
    \/ \E c \in OriginCallIds : start_elks_call_log(c)
    \/ \E c \in OriginCallIds : instant_main_menu(c)
    \/ \E c \in OriginCallIds, r \in Inputs : digit_collect(c, r)
    \/ \E c \in OriginCallIds : instant_connect(c)
    \/ \E c \in OriginCallIds : instant_connect_log(c)
    \/ \E c \in OriginCallIds : instant_connect_again(c)
    \/ \E c \in OriginCallIds : thanks_for_calling(c)
    \/ \E c \in OriginCallIds, start \in BOOLEAN, duration \in Durations :
          hangup(c, start, duration)
    \/ \E c \in OriginCallIds : hangup_remove_call(c)
    \/ \E c \in OriginCallIds : hangup_failed_log(c)

ServerSpec == Loaded /\ [][ServerNext]_vars

----------------------------------------------------------------------------
(* Properties *)

Last(s) == s[Len(s)]

Event(destination, event, call_id) ==
    [destination |-> destination, event |-> event, call_id |-> call_id]

\* the Calls connected to destination d: connected_at set, ended_at unset
ActiveCalls(d) ==
    {r \in calls : r.destination_id = d /\ r.connected_at # NULL
                   /\ r.ended_at = NULL}

\* a Call other than c is connected to destination d
OtherCallConnected(c, d) ==
    \E r \in ActiveCalls(d) : r.provider_call_id # c

\* the hangup webhook of call c is delivered
HangupDelivered(c) ==
    \E start \in BOOLEAN, duration \in Durations : hangup(c, start, duration)

\* C1: in every reachable state each Destination has at most one Call with
\* connected_at set and ended_at unset.
C1_OneConnectedCallPerDestination ==
    \A d \in Destinations : Cardinality(ActiveCalls(d)) <= 1

\* C2: a bridge attempt (instant_connect) for a Call whose Destination is
\* connected to another Call does not mark the Call connected.
C2_SecondBridgeIsRedirected ==
    [][\A c \in CallIds :
         (instant_connect(c)
            /\ OtherCallConnected(c, get_call(calls, c).destination_id))
         => get_call(calls', c).connected_at = NULL]_vars

\* C3: the hangup handler invoked for a call id that has no Call in the
\* Registry returns without raising, appends nothing to the log and leaves
\* the Registry unchanged.
C3_HangupOfUnknownCallReturns ==
    [][\A c \in CallIds :
         (HangupDelivered(c) /\ get_call(calls, c) = None)
         => (hpc'[c] # "raised" /\ log' = log /\ calls' = calls)]_vars

\* C4: every event the hangup handler appends for a Call is appended while
\* the Call is still in the Registry: remove_call is its final step.
C4_HangupLogsBeforeRemoveCall ==
    [][\A c \in CallIds :
         (hpc'[c] # hpc[c] /\ log'[c] # log[c])
         => get_call(calls, c) # None]_vars

\* C5: digit "1" for a Call whose Destination D is connected to another Call
\* selects a Destination D2 # D that is in no active call and logs no
\* CALLING_DESTINATION; the flow then appends IVR_SUGGESTED for D2.
C5_BusyDestinationGetsAlternative ==
    [][\A c \in CallIds :
         /\ (digit_collect(c, "1")
               /\ OtherCallConnected(c, get_call(calls, c).destination_id))
            => /\ pc'[c] = "alt_add"
               /\ loc'[c].new_destination # get_call(calls, c).destination_id
               /\ ~ destination_is_in_call(calls, loc'[c].new_destination)
               /\ log' = log
         /\ alternative_log(c)
            => log'[c] = Append(log[c], Event(loc[c].new_destination,
                                              "IVR_SUGGESTED", c))]_vars

\* C6: the hangup of a Call that had been connected for d seconds appends
\* FINISHED_SHORT_CALL when d <= threshold and FINISHED_CALL when d > threshold.
C6_HangupClassifiesByThreshold ==
    [][\A c \in CallIds :
         (HangupDelivered(c) /\ get_call(calls, c).connected_at # NULL)
         => log'[c] = Append(log[c], Event(
                get_call(calls, c).destination_id,
                IF now - get_call(calls, c).connected_at > phone_call_threshhold
                THEN "FINISHED_CALL" ELSE "FINISHED_SHORT_CALL", c))]_vars

\* C6 witness: one hangup handler has logged FINISHED_SHORT_CALL for a call
\* connected exactly threshold seconds, another FINISHED_CALL for a longer one.
C6_Witness ==
    \E a, b \in CallIds :
        /\ hpc[a] = "remove" /\ hpc[b] = "remove"
        /\ hloc[a].call.connected_at # NULL
        /\ now - hloc[a].call.connected_at = phone_call_threshhold
        /\ Last(log[a]).event = "FINISHED_SHORT_CALL"
        /\ hloc[b].call.connected_at # NULL
        /\ now - hloc[b].call.connected_at > phone_call_threshhold
        /\ Last(log[b]).event = "FINISHED_CALL"

\* C7: the hangup of a Call whose connected_at is unset appends CALL_ABORTED,
\* and no step of that handler appends FINISHED_SHORT_CALL or FINISHED_CALL.
C7_HangupOfUnconnectedCallAborts ==
    [][\A c \in CallIds :
         /\ (HangupDelivered(c) /\ get_call(calls, c) # None
               /\ get_call(calls, c).connected_at = NULL)
            => log'[c] = Append(log[c], Event(
                   get_call(calls, c).destination_id, "CALL_ABORTED", c))
         /\ (hangup_failed_log(c) /\ hloc[c].call.connected_at = NULL)
            => /\ Len(log'[c]) = Len(log[c]) + 1
               /\ Last(log'[c]).event
                    \notin {"FINISHED_SHORT_CALL", "FINISHED_CALL"}]_vars

\* C7 witness: the hangup handler has logged CALL_ABORTED for a registered
\* Call that was never connected.
C7_Witness ==
    \E c \in CallIds :
        /\ hpc[c] = "remove"
        /\ hloc[c].call # None
        /\ hloc[c].call.connected_at = NULL
        /\ Last(log[c]).event = "CALL_ABORTED"

C9_CreateThenGetReturnsTheCall ==
    [][(ret.op = "add_call" /\ ~ ret.raised
          /\ ret'.op = "get_call" /\ ret'.arg = ret.arg)
       => /\ ~ ret'.raised
          /\ ret'.call.provider = ret.call.provider
          /\ ret'.call.provider_call_id = ret.call.provider_call_id
          /\ ret'.call.user_language = ret.call.user_language
          /\ ret'.call.destination_id = ret.call.destination_id]_vars

\* C10: destination_is_in_call(d) answers true exactly when the Registry
\* holds a Call for d with connected_at set and ended_at unset.
C10_InCallIffActiveCall ==
    ret.op \in {"in_call", "not_in_call"}
    => ((ret.op = "in_call") <=> (Cardinality(ActiveCalls(ret.arg)) >= 1))

\* C10 witness: the query answered false for a Destination whose only Call
\* is created but not connected.
C10_Witness ==
    /\ ret.op = "not_in_call"
    /\ \E r \in calls : r.destination_id = ret.arg /\ r.connected_at = NULL
    /\ \E r \in calls : r.connected_at # NULL /\ r.ended_at # NULL
                        /\ r.destination_id = ret.arg

\* the Call is the only Call of the Registry that targets its Destination
OnlyCallOfItsDestination(call) ==
    \A r \in calls : r.destination_id = call.destination_id => r = call

\* C11: for a Call that is the only Call targeting its Destination, get_call
\* right after connect_call returns it with connected_at set and ended_at
\* unset and destination_is_in_call answers true; right after end_call,
\* get_call returns it with ended_at set and destination_is_in_call
\* answers false.
C11_ConnectThenEndCall ==
    [][/\ (ret.op = "connect_call" /\ ret.call.ended_at = NULL
             /\ OnlyCallOfItsDestination(ret.call))
          => /\ (ret'.op = "get_call" /\ ret'.arg = ret.arg)
                => /\ ~ ret'.raised
                   /\ ret'.call = ret.call
                   /\ ret'.call.connected_at # NULL
                   /\ ret'.call.ended_at = NULL
             /\ (ret'.op \in {"in_call", "not_in_call"}
                   /\ ret'.arg = ret.call.destination_id)
                => ret'.op = "in_call"
       /\ (ret.op = "end_call" /\ ret.call.connected_at # NULL
             /\ OnlyCallOfItsDestination(ret.call))
          => /\ (ret'.op = "get_call" /\ ret'.arg = ret.arg)
                => /\ ~ ret'.raised
                   /\ ret'.call = ret.call
                   /\ ret'.call.ended_at # NULL
             /\ (ret'.op \in {"in_call", "not_in_call"}
                   /\ ret'.arg = ret.call.destination_id)
                => ret'.op = "not_in_call"]_vars

\* C12: get_call for a call id that no Call of the Registry has (never
\* added, or removed) fails; it does not return an empty value.
C12_GetCallOfAbsentCallFails ==
    [][\A c \in CallIds :
         (RegGetCall(c) /\ get_call_rows(calls, c) = {})
         => ret'.raised]_vars

\* no two Calls share the same (provider, provider_call_id) pair
UniquePairs(rows) ==
    \A r1, r2 \in rows :
        (r1.provider = r2.provider
           /\ r1.provider_call_id = r2.provider_call_id) => r1 = r2

\* C13: add_call for a (provider, provider_call_id) pair that a Call of the
\* Registry already has fails and leaves the Registry unchanged, and no two
\* Calls of the Registry ever share the pair.
C13_DuplicateCallIsRejected ==
    [][/\ \A p \in Providers, c \in CallIds, u \in Users, d \in Destinations :
            (RegAddCall(p, c, u.user_language, u.user_id, d)
               /\ \E r \in calls : r.provider = p /\ r.provider_call_id = c)
            => (ret'.raised /\ calls' = calls)
       /\ UniquePairs(calls')]_vars

\* C13 witness: add_call has failed for a pair that is in the Registry, which
\* also holds a Call of the other provider with the same call id.
C13_Witness ==
    /\ ret.op = "add_call"
    /\ ret.raised
    /\ \E r1, r2 \in calls :
          /\ r1.provider_call_id = ret.arg
          /\ r2.provider_call_id = ret.arg
          /\ r1.provider # r2.provider

\* the states of the provider's answer other than failed
StartedStates == Responses \ {"failed"}

\* C14: when the provider answers the POST of start_elks_call with the state
\* failed, start_elks_call returns that state and adds no Call to the Registry.
C14_FailedStartCreatesNoCall ==
    [][\A c \in CallIds, u \in UserIds, d \in Destinations, l \in Languages :
         start_elks_call(c, u, d, l, "failed")
         => /\ calls' = calls
            /\ started'[c].returned = "failed"
            /\ ~ started'[c].raised
            /\ pc'[c] = "idle"]_vars

\* C14 witness: start_elks_call has returned failed for a call id that has
\* no Call, while the Registry holds the Call of another start.
C14_Witness ==
    \E c \in CallIds :
        /\ started[c].returned = "failed"
        /\ get_call_rows(calls, c) = {}
        /\ calls # {}

\* C15: when the provider answers the POST of start_elks_call with the state
\* failed, start_elks_call appends a CALLING_USER_FAILED event for the
\* requested Destination to the selection log.
C15_FailedStartLogsCallingUserFailed ==
    [][\A c \in CallIds, u \in UserIds, d \in Destinations, l \in Languages :
         start_elks_call(c, u, d, l, "failed")
         => log'[c] = Append(log[c], Event(d, "CALLING_USER_FAILED", c))]_vars

\* C16: when the provider answers with ongoing, success or busy,
\* start_elks_call adds exactly one Call with the provider's call id, the
\* user's language and the requested destination id, appends exactly one
\* CALLING_USER event for that Destination and call id, and returns the state.
C16_StartRegistersAndLogs ==
    [][/\ \A c \in CallIds, u \in UserIds, d \in Destinations,
             l \in Languages, s \in StartedStates :
            start_elks_call(c, u, d, l, s)
            => /\ get_call_rows(calls, c) = {}
               /\ calls' = calls \cup {[provider |-> "46elks",
                                         provider_call_id |-> c,
                                         user_language |-> l, user_id |-> u,
                                         destination_id |-> d,
                                         connected_at |-> NULL,
                                         ended_at |-> NULL]}
               /\ Cardinality(get_call_rows(calls', c)) = 1
               /\ started'[c].state = s
               /\ pc'[c] = "start_log"
               /\ log' = log
       /\ \A c \in CallIds :
            start_elks_call_log(c)
            => /\ calls' = calls
               /\ log'[c] = Append(log[c],
                      Event(get_call(calls, c).destination_id,
                            "CALLING_USER", c))
               /\ \A o \in CallIds \ {c} : log'[o] = log[o]
               /\ started'[c].returned = started[c].state
               /\ started'[c].returned \in StartedStates
               /\ pc'[c] = "idle"]_vars

\* C16 witness: two starts have returned, one busy and one ongoing, each with
\* its Call in the Registry and CALLING_USER as the only event of its call id.
C16_Witness ==
    \E a, b \in CallIds :
        /\ started[a].returned = "busy" /\ started[b].returned = "ongoing"
        /\ \A c \in {a, b} :
              /\ pc[c] = "idle"
              /\ Cardinality(get_call_rows(calls, c)) = 1
              /\ log[c] = <<Event(get_call(calls, c).destination_id,
                                  "CALLING_USER", c)>>

\* C17: when the POST of start_elks_call fails in transport or is answered
\* with a status other than 2xx, start_elks_call makes no second request,
\* raises the error to its caller and leaves the Registry and the selection
\* log unchanged.
C17_RequestErrorIsRaisedOnce ==
    [][\A c \in CallIds, u \in UserIds, d \in Destinations, l \in Languages,
         o \in RequestErrors :
         start_elks_call(c, u, d, l, o)
         => /\ started'[c].posts = started[c].posts + 1
            /\ started'[c].raised
            /\ started'[c].returned = ""
            /\ pc'[c] = "idle"
            /\ calls' = calls
            /\ log' = log]_vars

\* C17 witness: a start has raised after its one POST, while the Registry
\* and the log hold the Call and the event of another start.
C17_Witness ==
    \E c, o \in CallIds :
        /\ started[c].raised
        /\ started[c].posts = 1
        /\ get_call_rows(calls, c) = {}
        /\ log[c] = <<>>
        /\ get_call_rows(calls, o) # {}
        /\ log[o] # <<>>

\* C18: digit "1" for a Call whose Destination is in no active call appends
\* exactly one CALLING_DESTINATION event for that Destination, leaves the
\* Call and its destination id unchanged and answers with the bridge
\* endpoint (instant_connect) as the next callback.
C18_FreeDestinationIsCalled ==
    [][\A c \in CallIds :
         (digit_collect(c, "1") /\ get_call(calls, c) # None
            /\ ActiveCalls(get_call(calls, c).destination_id) = {})
         => /\ log'[c] = Append(log[c],
                   Event(get_call(calls, c).destination_id,
                         "CALLING_DESTINATION", c))
            /\ \A o \in CallIds \ {c} : log'[o] = log[o]
            /\ calls' = calls
            /\ get_call(calls', c).destination_id
                 = get_call(calls, c).destination_id
            /\ prov'[c] = "instant_connect"
            /\ pc'[c] = "idle"]_vars

\* C18 witness: digit "1" has been answered with the bridge endpoint for a
\* Call of a free Destination while another Destination is in an active call.
C18_Witness ==
    \E c \in CallIds :
        /\ prov[c] = "instant_connect"
        /\ pc[c] = "idle"
        /\ get_call(calls, c) # None
        /\ Last(log[c]) = Event(get_call(calls, c).destination_id,
                                "CALLING_DESTINATION", c)
        /\ ActiveCalls(get_call(calls, c).destination_id) = {}
        /\ \E d \in Destinations : ActiveCalls(d) # {}

\* C19: when the alternative flow completes for call id c (IVR_SUGGESTED
\* logged, instant_alternative the next callback), the Registry holds exactly
\* one Call for c: it targets the new Destination, has the provider, user
\* language and user id of the old Call and connected_at unset, and no Call
\* for c targets the old Destination.
C19_AlternativeReplacesTheCall ==
    [][\A c \in CallIds :
         (alternative_log(c) /\ prov'[c] = "instant_alternative")
         => /\ Cardinality(get_call_rows(calls', c)) = 1
            /\ \A r \in get_call_rows(calls', c) :
                  /\ r.destination_id = loc[c].new_destination
                  /\ r.destination_id # loc[c].call.destination_id
                  /\ r.provider = loc[c].call.provider
                  /\ r.user_language = loc[c].call.user_language
                  /\ r.user_id = loc[c].call.user_id
                  /\ r.connected_at = NULL
            /\ Last(log'[c]) = Event(loc[c].new_destination,
                                     "IVR_SUGGESTED", c)]_vars

\* C19 witness: the alternative flow has completed: the Call of the call id
\* targets the Destination suggested last, another Call is connected to the
\* Destination the Call was started for.
C19_Witness ==
    \E c \in CallIds :
        /\ prov[c] = "instant_alternative"
        /\ pc[c] = "idle"
        /\ get_call(calls, c) # None
        /\ Last(log[c]) = Event(get_call(calls, c).destination_id,
                                "IVR_SUGGESTED", c)
        /\ log[c][1].destination # get_call(calls, c).destination_id
        /\ OtherCallConnected(c, log[c][1].destination)

\* C20: the selection of an alternative Destination ends with a Destination
\* that is in no active call whenever there is one: a pick that is in an
\* active call is retried.
C20_AlternativeSelectionFindsFreeDestination ==
    [][\A c \in CallIds :
         (digit_collect(c, "1") /\ get_call(calls, c) # None
            /\ ActiveCalls(get_call(calls, c).destination_id) # {}
            /\ \E d \in Destinations : ActiveCalls(d) = {})
         => /\ pc'[c] = "alt_add"
            /\ ActiveCalls(loc'[c].new_destination) = {}]_vars

C22_MainMenuLogsInMenu ==
    [][\A c \in CallIds :
         (instant_main_menu(c) /\ get_call(calls, c) # None)
         => /\ log'[c] = Append(log[c],
                   Event(get_call(calls, c).destination_id, "IN_MENU", c))
            /\ \A o \in CallIds \ {c} : log'[o] = log[o]
            /\ calls' = calls
            /\ response'[c] = "ivr"
            /\ prov'[c] = "instant_next"
            /\ pc'[c] = "idle"]_vars

\* C22 witness: the menu-entry webhook has been answered with the menu for a
\* registered Call, IN_MENU following CALLING_USER in the log of its call id.
C22_Witness ==
    \E c \in CallIds :
        /\ response[c] = "ivr"
        /\ prov[c] = "instant_next"
        /\ get_call(calls, c) # None
        /\ log[c] = <<Event(get_call(calls, c).destination_id,
                            "CALLING_USER", c),
                      Event(get_call(calls, c).destination_id, "IN_MENU", c)>>

\* C23: a digit-collect, arguments or alternative webhook that reports no
\* input is answered with the empty answer that ends the call, and changes
\* neither the Registry nor the selection log: the Call stays registered.
C23_NoInputChangesNothing ==
    [][\A c \in CallIds :
         digit_collect(c, "noinput")
         => /\ calls' = calls
            /\ log' = log
            /\ response'[c] = "null"
            /\ prov'[c] = "ended"
            /\ pc'[c] = "idle"]_vars

\* C23 witness: no input has been answered for a Call that is still in the
\* Registry and whose hangup webhook has not arrived.
C23_Witness ==
    \E c \in CallIds :
        /\ response[c] = "null"
        /\ prov[c] = "ended"
        /\ hangups[c] = 0
        /\ get_call(calls, c) # None
        /\ Last(log[c]).event \in {"IN_MENU", "IVR_SUGGESTED"}

\* C24: a menu-entry, digit-collect or bridge webhook for a call id that has
\* no Call in the Registry is answered without an error, appends nothing to
\* the selection log and leaves the Registry unchanged.
C24_UnknownCallIsHandled ==
    [][\A c \in CallIds :
         ((instant_main_menu(c) \/ instant_connect(c)
             \/ \E result \in {"1", "2", "5"} : digit_collect(c, result))
            /\ get_call(calls, c) = None)
         => /\ response'[c] # "error"
            /\ log' = log
            /\ calls' = calls]_vars

\* a request from client_ip for call id c to one of the webhook endpoints
WebhookRequest(client_ip, c) ==
    \/ request(client_ip, c, instant_main_menu(c))
    \/ \E r \in Inputs : request(client_ip, c, digit_collect(c, r))
    \/ request(client_ip, c, instant_connect(c))
    \/ request(client_ip, c, thanks_for_calling(c))
    \/ \E start \in BOOLEAN, duration \in Durations :
          request(client_ip, c, hangup(c, start, duration))

\* C25: a webhook request whose client address is not in allowed_ips, or is
\* not known, is answered with 403 and its handler does not run: Registry,
\* selection log and the position of the call are unchanged.
C25_ForeignOriginIsRefused ==
    [][\A c \in CallIds, ip \in ClientIps \ allowed_ips :
         WebhookRequest(ip, c)
         => /\ response'[c] = "403"
            /\ calls' = calls
            /\ log' = log
            /\ prov' = prov
            /\ hangups' = hangups
            /\ hpc' = hpc
            /\ pc' = pc]_vars

\* C25 witness: a request has been refused for a call id whose Call is
\* registered and waits for its next webhook.
C25_Witness ==
    \E c \in CallIds :
        /\ response[c] = "403"
        /\ get_call(calls, c) # None
        /\ prov[c] = "instant_connect"
        /\ hangups[c] = 0

\* the event logged at position i of call id c has an event of the kind
\* before among the events logged before it
Preceded(c, i, before) ==
    \E j \in 1..(i - 1) : log[c][j].event = before

\* C26: the events of a call id follow the order of the state machine:
\* CALLING_USER is the first, IN_MENU comes after CALLING_USER,
\* CALLING_DESTINATION after IN_MENU, DESTINATION_CONNECTED after
\* CALLING_DESTINATION, FINISHED_SHORT_CALL and FINISHED_CALL after
\* DESTINATION_CONNECTED.
C26_EventsFollowTheStateMachine ==
    \A c \in CallIds : \A i \in 1..Len(log[c]) :
        /\ (log[c][i].event = "CALLING_USER") = (i = 1)
        /\ log[c][i].event = "IN_MENU" => Preceded(c, i, "CALLING_USER")
        /\ log[c][i].event = "CALLING_DESTINATION"
              => Preceded(c, i, "IN_MENU")
        /\ log[c][i].event = "DESTINATION_CONNECTED"
              => Preceded(c, i, "CALLING_DESTINATION")
        /\ log[c][i].event \in {"FINISHED_SHORT_CALL", "FINISHED_CALL"}
              => Preceded(c, i, "DESTINATION_CONNECTED")

TerminalEvents ==
    {"FINISHED_SHORT_CALL", "FINISHED_CALL", "CALL_ABORTED",
     "CALLING_USER_FAILED", "CALLING_DESTINATION_FAILED"}

\* C27: once a terminal event has been appended for a call id, no further
\* event is appended for that call id.
C27_TerminalEventIsLast ==
    [][\A c \in CallIds :
         (\E i \in 1..Len(log[c]) : log[c][i].event \in TerminalEvents)
         => log'[c] = log[c]]_vars

\* C28: once the hangup webhook of a call has been delivered and handled and
\* no handler of the call is running, the Registry holds no Call of the call.
C28_HandledHangupLeavesNoCall ==
    \A c \in CallIds :
        (hangups[c] >= 1 /\ hpc[c] \in {"done", "raised"} /\ pc[c] = "idle")
        => get_call(calls, c) = None

\* C29: a webhook request changes Registry and selection log in one
\* transaction: no state another request can read has the Call of a running
\* alternative-destination flow removed and not yet added again, and the
\* Registry changes only together with the event the handler logs for it.
C29_HandlersAreAtomic ==
    [][\A c \in CallIds :
         /\ (digit_collect(c, "1") /\ get_call(calls, c) # None)
            => get_call(calls', c) # None
         /\ (instant_connect(c) /\ get_call(calls, c) # None)
            => (get_call(calls', c).connected_at # NULL
                  => /\ log'[c] # <<>>
                     /\ Last(log'[c]).event = "DESTINATION_CONNECTED")]_vars

\* C30: the selection log is append-only: every step leaves the events
\* logged before unchanged and in place and only adds events at the end.
C30_LogIsAppendOnly ==
    [][\A c \in CallIds :
         /\ Len(log'[c]) >= Len(log[c])
         /\ SubSeq(log'[c], 1, Len(log[c])) = log[c]]_vars

\* C30 witness: a call id has the six events of a connected call that was
\* hung up without start, in the order they were logged.
C30_Witness ==
    \E c \in CallIds :
        /\ Len(log[c]) = 6
        /\ log[c][1].event = "CALLING_USER"
        /\ log[c][4].event = "DESTINATION_CONNECTED"
        /\ log[c][6].event = "CALLING_USER_FAILED"

\* C31: after any sequence of Registry operations under a clock that never
\* runs back, every Call that has both connected_at and ended_at set has
\* ended_at >= connected_at (the rows of ongoing_calls.py carry no start
\* time of their own: add_call sets none).
C31_EndedNotBeforeConnected ==
    \A r \in calls :
        (r.connected_at # NULL /\ r.ended_at # NULL)
        => r.ended_at >= r.connected_at

\* the numbers of the pool whose country is the language
Matching(language) ==
    {phone_numbers[i].number : i \in
        {j \in 1..Len(phone_numbers) : phone_numbers[j].country = language}}

\* the numbers of the pool
PoolNumbers == {phone_numbers[i].number : i \in 1..Len(phone_numbers)}

\* C32: with a pool that is not empty, the number start_elks_call calls from
\* is a number of the pool; it is one of the numbers whose country matches
\* the user's language when there is one, and any number of the pool only
\* when none matches.
C32_NumberIsChosenFromThePool ==
    [][\A c \in CallIds, d \in Destinations, l \in Languages, o \in Outcomes :
         (start_elks_call(c, UserOf[c], d, l, o) /\ Len(phone_numbers) > 0)
         => /\ started'[c].posts >= 1
            /\ started'[c].from_nr \in PoolNumbers
            /\ Matching(l) # {} => started'[c].from_nr \in Matching(l)]_vars

\* C32 witness: a call of a user whose language is de was started from the
\* de number of a pool that also holds a number of another country.
C32_Witness ==
    \E c \in CallIds :
        /\ get_call(calls, c) # None
        /\ get_call(calls, c).user_language = "de"
        /\ started[c].from_nr = "nr_de"
        /\ "nr_se" \in PoolNumbers

\* C33: with an empty pool start_elks_call fails in the choice of the number:
\* it sends no request to the provider, adds no Call and appends no event.
C33_EmptyPoolFailsBeforeTheRequest ==
    [][\A c \in CallIds, d \in Destinations, l \in Languages, o \in Outcomes :
         (start_elks_call(c, UserOf[c], d, l, o) /\ Len(phone_numbers) = 0)
         => /\ started'[c].raised
            /\ started'[c].posts = 0
            /\ started'[c].returned = ""
            /\ calls' = calls
            /\ log' = log
            /\ prov' = prov
            /\ pc'[c] = "idle"]_vars

\* C33 witness: start_elks_call has failed without a request in a process
\* whose pool is empty after mount_router.
C33_Witness ==
    \E c \in CallIds :
        /\ Mounted
        /\ phone_numbers = <<>>
        /\ started[c].raised
        /\ started[c].posts = 0
        /\ calls = {}
        /\ log[c] = <<>>

\* C34: once mount_router has returned, the pool is read-only: start_elks_call
\* and every step of every webhook handler leave phone_numbers unchanged.
C34_PoolIsReadOnlyAfterStart ==
    [][Mounted => phone_numbers' = phone_numbers]_vars

\* C34 witness: a call started from a number of the pool has been connected
\* and hung up, and the pool still holds the number.
C34_Witness ==
    \E c \in CallIds :
        /\ Mounted
        /\ started[c].from_nr \in PoolNumbers
        /\ hpc[c] = "done"
        /\ \E i \in 1..Len(log[c]) : log[c][i].event = "DESTINATION_CONNECTED"
        /\ get_call(calls, c) = None

\* C35: the hangup of a connected Call is classified by the duration the
\* webhook reports, whatever the time between the bridge and the handling of
\* the hangup: FINISHED_SHORT_CALL for a duration up to the threshold,
\* FINISHED_CALL for a longer one (threshold 1 second, durations 0 and 2).
C35_ReportedDurationClassifies ==
    [][\A c \in CallIds, start \in BOOLEAN, duration \in Durations :
         (hangup(c, start, duration) /\ get_call(calls, c) # None
            /\ get_call(calls, c).connected_at # NULL)
         => Last(log'[c]).event =
              IF duration <= phone_call_threshhold
              THEN "FINISHED_SHORT_CALL" ELSE "FINISHED_CALL"]_vars

\* C36: connect_call is made at most once per Call, also when the bridge
\* webhook of the call is delivered again: connected_at, once set, is not
\* written again and no second DESTINATION_CONNECTED is appended.
C36_ConnectedOnce ==
    [][\A c \in CallIds :
         /\ (instant_connect(c) /\ get_call(calls, c) # None
               /\ get_call(calls, c).connected_at # NULL)
            => calls' = calls
         /\ instant_connect_log(c) => connected_events(c) = {}]_vars

HangupEvents == {"FINISHED_SHORT_CALL", "FINISHED_CALL", "CALL_ABORTED"}

\* the events of HangupEvents logged for call id c
hangup_events(l, c) ==
    {i \in 1..Len(l[c]) : l[c][i].event \in HangupEvents}

\* C37: a hangup handled for a Call of the Registry appends exactly one event
\* of FINISHED_SHORT_CALL, FINISHED_CALL, CALL_ABORTED for the call id: its
\* first step appends one, its later steps none.
C37_OneHangupEventPerHangup ==
    [][\A c \in CallIds :
         /\ (HangupDelivered(c) /\ get_call(calls, c) # None)
            => /\ Len(log'[c]) = Len(log[c]) + 1
               /\ SubSeq(log'[c], 1, Len(log[c])) = log[c]
               /\ Last(log'[c]).event \in HangupEvents
         /\ (hangup_remove_call(c) \/ hangup_failed_log(c))
            => /\ Cardinality(hangup_events(log', c))
                    = Cardinality(hangup_events(log, c))
               /\ SubSeq(log'[c], 1, Len(log[c])) = log[c]]_vars

\* C37 witness: the one hangup of a connected call, without start, has been
\* handled: FINISHED_CALL is the only event of the three in its log, followed
\* by CALLING_USER_FAILED.
C37_Witness ==
    \E c \in CallIds :
        /\ hangups[c] = 1
        /\ hpc[c] = "done"
        /\ Cardinality(hangup_events(log, c)) = 1
        /\ Len(log[c]) >= 2
        /\ log[c][Len(log[c]) - 1].event = "FINISHED_CALL"
        /\ Last(log[c]).event = "CALLING_USER_FAILED"

\* the hangup of call id c, connected to destination d, has been handled and
\* no Call is connected to d
Released(c, d) ==
    /\ hpc[c] = "done"
    /\ get_call(calls, c) = None
    /\ \E i \in 1..Len(log[c]) :
          /\ log[c][i].destination = d
          /\ log[c][i].event \in {"FINISHED_SHORT_CALL", "FINISHED_CALL"}
    /\ ActiveCalls(d) = {}

\* C38: the hangup of a connected Call releases its Destination D: when
\* remove_call of the handler has run and no other Call is connected to D,
\* destination_is_in_call(D) is false, and digit "1" of another call for D
\* then appends CALLING_DESTINATION and starts no alternative flow.
C38_HangupReleasesTheDestination ==
    [][\A c \in CallIds :
         /\ (hangup_remove_call(c) /\ hloc[c].call.connected_at # NULL
               /\ ~ OtherCallConnected(c, hloc[c].call.destination_id))
            => /\ hpc'[c] \in {"done", "failed_log"}
               /\ get_call(calls', c) = None
               /\ ~ destination_is_in_call(calls',
                                           hloc[c].call.destination_id)
         /\ \A o \in CallIds \ {c} :
              (digit_collect(o, "1") /\ get_call(calls, o) # None
                 /\ Released(c, get_call(calls, o).destination_id))
              => /\ log'[o] = Append(log[o],
                        Event(get_call(calls, o).destination_id,
                              "CALLING_DESTINATION", o))
                 /\ pc'[o] = "idle"
                 /\ prov'[o] = "instant_connect"]_vars

\* C38 witness: call c was connected to D, its hangup has been handled and
\* its Call is gone; the last event of another call for D is the
\* CALLING_DESTINATION its digit "1" was answered with.
C38_Witness ==
    \E c \in CallIds : \E o \in CallIds \ {c} :
        /\ get_call(calls, o) # None
        /\ Released(c, get_call(calls, o).destination_id)
        /\ prov[o] = "instant_connect"
        /\ Last(log[o]) = Event(get_call(calls, o).destination_id,
                                "CALLING_DESTINATION", o)

\* C39: when the one hangup webhook of a call id and an alternative flow of
\* the call id (remove_call, add_call, IVR_SUGGESTED) have both been handled,
\* the one during the other included, the Registry holds no Call of the call
\* id.
C39_HangupAndAlternativeLeaveNoCall ==
    \A c \in CallIds :
        (/\ hangups[c] = 1
         /\ hpc[c] \in {"done", "raised"}
         /\ pc[c] = "idle"
         /\ \E i \in 1..Len(log[c]) : log[c][i].event = "IVR_SUGGESTED")
        => get_call(calls, c) = None

\* C40: after mount_router has refreshed the empty pool (dry_run off), the
\* pool holds every number the provider answered with exactly once.
C40_PoolHoldsEachNumberOnce ==
    (ret.op = "mount_router" /\ ~ ret.raised /\ ret.arg # "dry_run")
    => \A i \in 1..Len(NumbersResponses[ret.arg]) :
          Cardinality({j \in 1..Len(phone_numbers) :
                         phone_numbers[j] = NumbersResponses[ret.arg][i]}) = 1

====
